---- MODULE Spec2Model ----
(***************************************************************************)
(* CricScores: the sequential message queue (MessageQueue.add /            *)
(* processNext), the classification call (processWithGemini) and the       *)
(* scorecard update (updateScorecard) of the Telegram listener.            *)
(*                                                                         *)
(* JavaScript runs each handler to its next `await`; the only suspension   *)
(* point that waits on the outside world is the classification call, so    *)
(* one action is one run-to-completion step of the event loop.             *)
(***************************************************************************)
EXTENDS Integers, Sequences, FiniteSets, TLC

(* ------------------------------ bounds -------------------------------- *)
\* number of messages the chat source delivers in one behaviour
MaxMsgs == 3
\* largest runs_off_bat / extra_runs a classification result carries
MaxRunsOffBat == 2
MaxExtraRuns == 1
\* runs and completed overs of the scorecards the item specification starts from
StartRuns == 0
StartOvers == 0
\* number of deliveries applied in a row in the scenario specification
MaxScenarioSteps == 3

Msgs == 1..MaxMsgs

(* -------------------------- JavaScript values ------------------------- *)
\* A JS number is an integer or NaN; a missing JSON field reads as undefined.
Num(n) == [k |-> "num", v |-> n]
NaN == [k |-> "NaN", v |-> 0]
Undefined == [k |-> "undefined", v |-> 0]
IsNum(x) == x.k = "num"

\* a + b and a - b on numbers/undefined: anything but two numbers gives NaN
JSAdd(a, b) == IF IsNum(a) /\ IsNum(b) THEN Num(a.v + b.v) ELSE NaN
JSSub(a, b) == IF IsNum(a) /\ IsNum(b) THEN Num(a.v - b.v) ELSE NaN
\* a % n: the sign follows the dividend; NaN % n is NaN
JSRem(a, n) ==
  IF IsNum(a)
    THEN Num(IF a.v >= 0 THEN a.v % n ELSE -((-a.v) % n))
    ELSE NaN
\* a !== 0: NaN !== 0 is true
JSNotZero(a) == ~(IsNum(a) /\ a.v = 0)
\* x ^ 1 on the one-bit strike flag
Xor1(x) == 1 - x

(* ------------------------------ scorecard ----------------------------- *)
\* scorecard.over is the decimal overs.balls; it is held here in tenths, so
\* 9 is 90 and 19.4 is 194.
OverFloor(over) == over \div 10
\* Math.round((over % 1) * 10)
CurrentBalls(over) == over % 10

InitScorecard == [runs |-> Num(68), over |-> 90, wicket |-> 2, onstrike |-> 0]

ExtraTypes == {"wide", "no_ball", "leg_bye", "bye", "null"}
Types == {"RUNS", "DOT", "FOUR", "SIX", "WICKET", "EXTRA", "FREE_HIT"}

IsWideOrNoBall(data) == data.extra_type = "wide" \/ data.extra_type = "no_ball"

updateScorecardNoPenaltyAdjust(sc, data) ==
  LET wicket1 == IF data.wicket = TRUE THEN (sc.wicket + 1) % 11 ELSE sc.wicket
      last_scorecard == sc.runs
      runs1 == JSAdd(sc.runs, JSAdd(data.runs_off_bat, data.extra_runs))
      diff == JSSub(runs1, last_scorecard)
      strike1 == IF JSNotZero(JSRem(diff, 2)) /\ JSNotZero(diff)
                   THEN Xor1(sc.onstrike) ELSE sc.onstrike
      currentBalls == CurrentBalls(sc.over)
  IN  IF ~IsWideOrNoBall(data)
        THEN IF currentBalls = 5
               THEN [runs |-> runs1, over |-> (OverFloor(sc.over) + 1) * 10,
                     wicket |-> wicket1, onstrike |-> Xor1(strike1)]
               ELSE [runs |-> runs1,
                     over |-> OverFloor(sc.over) * 10 + (currentBalls + 1),
                     wicket |-> wicket1, onstrike |-> strike1]
        ELSE [runs |-> runs1, over |-> sc.over, wicket |-> wicket1,
              onstrike |-> strike1]

updateScorecardNoOverToggle(sc, data) ==
  LET wicket1 == IF data.wicket = TRUE THEN (sc.wicket + 1) % 11 ELSE sc.wicket
      last_scorecard == sc.runs
      runs1 == JSAdd(sc.runs, JSAdd(data.runs_off_bat, data.extra_runs))
      rotationRuns == IF IsWideOrNoBall(data) THEN JSSub(runs1, Num(1)) ELSE runs1
      diff == JSSub(rotationRuns, last_scorecard)
      strike1 == IF JSNotZero(JSRem(diff, 2)) /\ JSNotZero(diff)
                   THEN Xor1(sc.onstrike) ELSE sc.onstrike
      currentBalls == CurrentBalls(sc.over)
  IN  IF ~IsWideOrNoBall(data)
        THEN IF currentBalls = 5
               THEN [runs |-> runs1, over |-> (OverFloor(sc.over) + 1) * 10,
                     wicket |-> wicket1, onstrike |-> strike1]
               ELSE [runs |-> runs1,
                     over |-> OverFloor(sc.over) * 10 + (currentBalls + 1),
                     wicket |-> wicket1, onstrike |-> strike1]
        ELSE [runs |-> runs1, over |-> sc.over, wicket |-> wicket1,
              onstrike |-> strike1]

updateScorecardExtraPenalty(sc, data) ==
  LET wicket1 == IF data.wicket = TRUE THEN (sc.wicket + 1) % 11 ELSE sc.wicket
      last_scorecard == sc.runs
      runs1 == IF IsWideOrNoBall(data)
                 THEN JSAdd(JSAdd(sc.runs, JSAdd(data.runs_off_bat, data.extra_runs)), Num(1))
                 ELSE JSAdd(sc.runs, JSAdd(data.runs_off_bat, data.extra_runs))
      credited == JSAdd(sc.runs, JSAdd(data.runs_off_bat, data.extra_runs))
      rotationRuns == IF IsWideOrNoBall(data) THEN JSSub(credited, Num(1))
                      ELSE credited
      diff == JSSub(rotationRuns, last_scorecard)
      strike1 == IF JSNotZero(JSRem(diff, 2)) /\ JSNotZero(diff)
                   THEN Xor1(sc.onstrike) ELSE sc.onstrike
      currentBalls == CurrentBalls(sc.over)
  IN  IF ~IsWideOrNoBall(data)
        THEN IF currentBalls = 5
               THEN [runs |-> runs1, over |-> (OverFloor(sc.over) + 1) * 10,
                     wicket |-> wicket1, onstrike |-> Xor1(strike1)]
               ELSE [runs |-> runs1,
                     over |-> OverFloor(sc.over) * 10 + (currentBalls + 1),
                     wicket |-> wicket1, onstrike |-> strike1]
        ELSE [runs |-> runs1, over |-> sc.over, wicket |-> wicket1,
              onstrike |-> strike1]

updateScorecardCountsWides(sc, data) ==
  LET wicket1 == IF data.wicket = TRUE THEN (sc.wicket + 1) % 11 ELSE sc.wicket
      last_scorecard == sc.runs
      runs1 == JSAdd(sc.runs, JSAdd(data.runs_off_bat, data.extra_runs))
      credited == JSAdd(sc.runs, JSAdd(data.runs_off_bat, data.extra_runs))
      rotationRuns == IF IsWideOrNoBall(data) THEN JSSub(credited, Num(1))
                      ELSE credited
      diff == JSSub(rotationRuns, last_scorecard)
      strike1 == IF JSNotZero(JSRem(diff, 2)) /\ JSNotZero(diff)
                   THEN Xor1(sc.onstrike) ELSE sc.onstrike
      currentBalls == CurrentBalls(sc.over)
  IN  IF data.extra_type # "no_ball"
        THEN IF currentBalls = 5
               THEN [runs |-> runs1, over |-> (OverFloor(sc.over) + 1) * 10,
                     wicket |-> wicket1, onstrike |-> Xor1(strike1)]
               ELSE [runs |-> runs1,
                     over |-> OverFloor(sc.over) * 10 + (currentBalls + 1),
                     wicket |-> wicket1, onstrike |-> strike1]
        ELSE [runs |-> runs1, over |-> sc.over, wicket |-> wicket1,
              onstrike |-> strike1]

updateScorecardNoWrap(sc, data) ==
  LET wicket1 == IF data.wicket = TRUE THEN sc.wicket + 1 ELSE sc.wicket
      last_scorecard == sc.runs
      runs1 == JSAdd(sc.runs, JSAdd(data.runs_off_bat, data.extra_runs))
      credited == JSAdd(sc.runs, JSAdd(data.runs_off_bat, data.extra_runs))
      rotationRuns == IF IsWideOrNoBall(data) THEN JSSub(credited, Num(1))
                      ELSE credited
      diff == JSSub(rotationRuns, last_scorecard)
      strike1 == IF JSNotZero(JSRem(diff, 2)) /\ JSNotZero(diff)
                   THEN Xor1(sc.onstrike) ELSE sc.onstrike
      currentBalls == CurrentBalls(sc.over)
  IN  IF ~IsWideOrNoBall(data)
        THEN IF currentBalls = 5
               THEN [runs |-> runs1, over |-> (OverFloor(sc.over) + 1) * 10,
                     wicket |-> wicket1, onstrike |-> Xor1(strike1)]
               ELSE [runs |-> runs1,
                     over |-> OverFloor(sc.over) * 10 + (currentBalls + 1),
                     wicket |-> wicket1, onstrike |-> strike1]
        ELSE [runs |-> runs1, over |-> sc.over, wicket |-> wicket1,
              onstrike |-> strike1]

updateScorecardFreeHitNoWicket(sc, data) ==
  LET wicket1 == IF data.wicket = TRUE /\ ~data.free_hit
                   THEN (sc.wicket + 1) % 11 ELSE sc.wicket
      last_scorecard == sc.runs
      runs1 == JSAdd(sc.runs, JSAdd(data.runs_off_bat, data.extra_runs))
      credited == JSAdd(sc.runs, JSAdd(data.runs_off_bat, data.extra_runs))
      rotationRuns == IF IsWideOrNoBall(data) THEN JSSub(credited, Num(1))
                      ELSE credited
      diff == JSSub(rotationRuns, last_scorecard)
      strike1 == IF JSNotZero(JSRem(diff, 2)) /\ JSNotZero(diff)
                   THEN Xor1(sc.onstrike) ELSE sc.onstrike
      currentBalls == CurrentBalls(sc.over)
  IN  IF ~IsWideOrNoBall(data)
        THEN IF currentBalls = 5
               THEN [runs |-> runs1, over |-> (OverFloor(sc.over) + 1) * 10,
                     wicket |-> wicket1, onstrike |-> Xor1(strike1)]
               ELSE [runs |-> runs1,
                     over |-> OverFloor(sc.over) * 10 + (currentBalls + 1),
                     wicket |-> wicket1, onstrike |-> strike1]
        ELSE [runs |-> runs1, over |-> sc.over, wicket |-> wicket1,
              onstrike |-> strike1]

updateScorecardOverResetsStrike(sc, data) ==
  LET wicket1 == IF data.wicket = TRUE THEN (sc.wicket + 1) % 11 ELSE sc.wicket
      last_scorecard == sc.runs
      runs1 == JSAdd(sc.runs, JSAdd(data.runs_off_bat, data.extra_runs))
      rotationRuns == IF IsWideOrNoBall(data) THEN JSSub(runs1, Num(1)) ELSE runs1
      diff == JSSub(rotationRuns, last_scorecard)
      strike1 == IF JSNotZero(JSRem(diff, 2)) /\ JSNotZero(diff)
                   THEN Xor1(sc.onstrike) ELSE sc.onstrike
      currentBalls == CurrentBalls(sc.over)
  IN  IF ~IsWideOrNoBall(data)
        THEN IF currentBalls = 5
               THEN [runs |-> runs1, over |-> (OverFloor(sc.over) + 1) * 10,
                     wicket |-> wicket1, onstrike |-> 0]
               ELSE [runs |-> runs1,
                     over |-> OverFloor(sc.over) * 10 + (currentBalls + 1),
                     wicket |-> wicket1, onstrike |-> strike1]
        ELSE [runs |-> runs1, over |-> sc.over, wicket |-> wicket1,
              onstrike |-> strike1]

\* updateScorecard(data), as a function of the scorecard it mutates
updateScorecard(sc, data) ==
  LET \* wickets
      wicket1 == IF data.wicket = TRUE THEN (sc.wicket + 1) % 11 ELSE sc.wicket
      \* runs and strike rotation
      last_scorecard == sc.runs
      runs1 == JSAdd(sc.runs, JSAdd(data.runs_off_bat, data.extra_runs))
      rotationRuns == IF IsWideOrNoBall(data) THEN JSSub(runs1, Num(1)) ELSE runs1
      diff == JSSub(rotationRuns, last_scorecard)
      strike1 == IF JSNotZero(JSRem(diff, 2)) /\ JSNotZero(diff)
                   THEN Xor1(sc.onstrike) ELSE sc.onstrike
      \* overs, only for legal deliveries
      currentBalls == CurrentBalls(sc.over)
  IN  IF ~IsWideOrNoBall(data)
        THEN IF currentBalls = 5
               THEN [runs |-> runs1, over |-> (OverFloor(sc.over) + 1) * 10,
                     wicket |-> wicket1, onstrike |-> Xor1(strike1)]
               ELSE [runs |-> runs1,
                     over |-> OverFloor(sc.over) * 10 + (currentBalls + 1),
                     wicket |-> wicket1, onstrike |-> strike1]
        ELSE [runs |-> runs1, over |-> sc.over, wicket |-> wicket1,
              onstrike |-> strike1]

(* ----------------------- classification results ----------------------- *)
\* The parsed JSON object. runs_off_bat and extra_runs may be missing.
FieldValues(max) == {Num(n) : n \in 0..max} \cup {Undefined}

Events ==
  [type : Types, runs_off_bat : FieldValues(MaxRunsOffBat),
   extra_type : ExtraTypes, extra_runs : FieldValues(MaxExtraRuns),
   free_hit : BOOLEAN, wicket : BOOLEAN, ignore : BOOLEAN]

NoData ==
  [type |-> "DOT", runs_off_bat |-> Num(0), extra_type |-> "null",
   extra_runs |-> Num(0), free_hit |-> FALSE, wicket |-> FALSE, ignore |-> FALSE]

\* What processWithGemini hands back: null (the call threw, or the response
\* carried no text), text JSON.parse rejects, or text that parses to an object.
NullOutput == [kind |-> "null", data |-> NoData]
GarbageOutput == [kind |-> "garbage", data |-> NoData]
JsonOutput(e) == [kind |-> "json", data |-> e]
NoOutput == [kind |-> "none", data |-> NoData]

processWithGemini == {NullOutput, GarbageOutput} \cup {JsonOutput(e) : e \in Events}

\* The results the queue specification draws from, one of each kind: a dot
\* ball, a single, a wide, a wicket, an ignored message that carries a wicket
\* and a run, and an object with its numeric fields missing.
QueueEvents ==
  {e \in Events :
     /\ e.type = "RUNS" /\ e.free_hit = FALSE
     /\ e.extra_type \in {"null", "wide"}
     /\ e.runs_off_bat \in {Num(0), Num(1), Undefined}
     /\ e.extra_runs = (IF e.extra_type = "wide" THEN Num(1)
                        ELSE IF e.runs_off_bat = Undefined THEN Undefined
                        ELSE Num(0))
     /\ e.extra_type = "wide" => e.runs_off_bat = Num(0)
     /\ e.ignore => e.wicket
     /\ e.wicket => /\ e.extra_type = "null"
                    /\ e.runs_off_bat = (IF e.ignore THEN Num(1) ELSE Num(0))}

QueueOutputs == {NullOutput, GarbageOutput} \cup {JsonOutput(e) : e \in QueueEvents}

ApplyOutputGarbageAsEmpty(sc, out) ==
  IF out.kind = "null" THEN sc
  ELSE IF out.kind = "garbage"
    THEN updateScorecard(sc, [NoData EXCEPT !.runs_off_bat = Undefined,
                                            !.extra_runs = Undefined])
  ELSE IF out.data.ignore THEN sc
  ELSE updateScorecard(sc, out.data)

ApplyOutputNoIgnoreCheck(sc, out) ==
  IF out.kind = "null" THEN sc
  ELSE IF out.kind = "garbage" THEN sc
  ELSE updateScorecard(sc, out.data)

\* processNext, from the return of the classification call to the recursive
\* call: the scorecard after the item
ApplyOutput(sc, out) ==
  IF out.kind = "null" THEN sc               \* if (geminiOutput) is false
  ELSE IF out.kind = "garbage" THEN sc       \* JSON.parse throws, caught
  ELSE IF out.data.ignore THEN sc
  ELSE updateScorecard(sc, out.data)


(* ------------------------------- state -------------------------------- *)
VARIABLES
  queue,       \* MessageQueue.queue: the pending messages, oldest first
  processing,  \* MessageQueue.processing
  scorecard,   \* the global scorecard object
  calls,       \* the processNext frames suspended on the classification call,
               \* each with its message and the add call that began its chain
  addCall,     \* each add call: notcalled, awaiting (suspended on the drain it
               \* began), resuming (its await is resolved), returned
  done,        \* history: the messages whose processing completed, in order
  lastOut,     \* history: the classification result of the last completed item
  prevSc       \* history: the scorecard before the last completed item

vars == <<queue, processing, scorecard, calls, addCall, done, lastOut, prevSc>>

Init ==
  /\ queue = <<>>
  /\ processing = FALSE
  /\ scorecard = InitScorecard
  /\ calls = {}
  /\ addCall = [m \in Msgs |-> "notcalled"]
  /\ done = <<>>
  /\ lastOut = NoOutput
  /\ prevSc = InitScorecard

(* ---------------------------- MessageQueue ---------------------------- *)
processNextKeepsFlag(q) ==
  IF Len(q) = 0
    THEN [queue |-> q, processing |-> processing, message |-> 0]
    ELSE [queue |-> Tail(q), processing |-> TRUE, message |-> Head(q)]

processNextPopsLast(q) ==
  IF Len(q) = 0
    THEN [queue |-> q, processing |-> FALSE, message |-> 0]
    ELSE [queue |-> SubSeq(q, 1, Len(q) - 1), processing |-> TRUE,
          message |-> q[Len(q)]]

\* processNext up to its await: the queue and flag it leaves and the message
\* it sends to the classification call (0: the queue was empty, it returned)
processNext(q) ==
  IF Len(q) = 0
    THEN [queue |-> q, processing |-> FALSE, message |-> 0]
    ELSE [queue |-> Tail(q), processing |-> TRUE, message |-> Head(q)]

\* the frame processNext suspends on the classification call, if any
Suspended(r, owner) ==
  IF r.message = 0 THEN {} ELSE {[msg |-> r.message, owner |-> owner]}

addNoGuard(m) ==
  LET r == processNext(Append(queue, m)) IN
    /\ queue' = r.queue
    /\ processing' = r.processing
    /\ calls' = calls \cup Suspended(r, m)
    /\ addCall' = [addCall EXCEPT ![m] = IF r.message = 0 THEN "resuming"
                                         ELSE "awaiting"]
    /\ UNCHANGED <<scorecard, done, lastOut, prevSc>>

addUnshift(m) ==
  LET q1 == <<m>> \o queue IN
    /\ IF ~processing
         THEN LET r == processNext(q1) IN
                /\ queue' = r.queue
                /\ processing' = r.processing
                /\ calls' = calls \cup Suspended(r, m)
                /\ addCall' = [addCall EXCEPT ![m] = IF r.message = 0
                                                       THEN "resuming"
                                                       ELSE "awaiting"]
         ELSE /\ queue' = q1
              /\ addCall' = [addCall EXCEPT ![m] = "returned"]
              /\ UNCHANGED <<processing, calls>>
    /\ UNCHANGED <<scorecard, done, lastOut, prevSc>>

\* MessageQueue.add(message), to its first suspension or its return
add(m) ==
  LET q1 == Append(queue, m) IN
    /\ IF ~processing
         THEN LET r == processNext(q1) IN
                /\ queue' = r.queue
                /\ processing' = r.processing
                /\ calls' = calls \cup Suspended(r, m)
                /\ addCall' = [addCall EXCEPT ![m] = IF r.message = 0
                                                       THEN "resuming"
                                                       ELSE "awaiting"]
         ELSE /\ queue' = q1
              /\ addCall' = [addCall EXCEPT ![m] = "returned"]
              /\ UNCHANGED <<processing, calls>>
    /\ UNCHANGED <<scorecard, done, lastOut, prevSc>>

\* The event handler: the chat source delivers its messages in order, and a
\* message of the target channel is passed to add.
Handler(m) ==
  /\ addCall[m] = "notcalled"
  /\ \A n \in Msgs : n < m => addCall[n] # "notcalled"
  /\ add(m)

GeminiReturnsNoRecurse(c, out) ==
  /\ c \in calls
  /\ scorecard' = ApplyOutput(scorecard, out)
  /\ prevSc' = scorecard
  /\ lastOut' = out
  /\ done' = Append(done, c.msg)
  /\ calls' = calls \ {c}
  /\ addCall' = [addCall EXCEPT ![c.owner] = "resuming"]
  /\ UNCHANGED <<queue, processing>>

GeminiReturnsRetry(c, out) ==
  /\ c \in calls
  /\ scorecard' = ApplyOutput(scorecard, out)
  /\ prevSc' = scorecard
  /\ lastOut' = out
  /\ done' = Append(done, c.msg)
  /\ LET r == processNext(IF out.kind \in {"null", "garbage"}
                            THEN Append(queue, c.msg) ELSE queue) IN
       /\ queue' = r.queue
       /\ processing' = r.processing
       /\ calls' = (calls \ {c}) \cup Suspended(r, c.owner)
       /\ addCall' = IF r.message = 0
                       THEN [addCall EXCEPT ![c.owner] = "resuming"]
                       ELSE addCall

\* processNext from the return of the classification call: the item is parsed
\* and applied, then processNext is called again and runs to its own await
GeminiReturns(c, out) ==
  /\ c \in calls
  /\ scorecard' = ApplyOutput(scorecard, out)
  /\ prevSc' = scorecard
  /\ lastOut' = out
  /\ done' = Append(done, c.msg)
  /\ LET r == processNext(queue) IN
       /\ queue' = r.queue
       /\ processing' = r.processing
       /\ calls' = (calls \ {c}) \cup Suspended(r, c.owner)
       /\ addCall' = IF r.message = 0
                       THEN [addCall EXCEPT ![c.owner] = "resuming"]
                       ELSE addCall

\* the add call that began a drain resumes after its await and returns
AddReturns(m) ==
  /\ addCall[m] = "resuming"
  /\ addCall' = [addCall EXCEPT ![m] = "returned"]
  /\ UNCHANGED <<queue, processing, scorecard, calls, done, lastOut, prevSc>>

Next ==
  \/ \E m \in Msgs : Handler(m)
  \/ \E c \in calls : \E out \in QueueOutputs : GeminiReturns(c, out)
  \/ \E m \in Msgs : AddReturns(m)

Spec == Init /\ [][Next]_vars

\* Every classification call returns, with a result or a failure, and a
\* resolved await resumes.
Fairness ==
  /\ WF_vars(\E c \in calls : \E out \in QueueOutputs : GeminiReturns(c, out))
  /\ WF_vars(\E m \in Msgs : AddReturns(m))

SpecLive == Spec /\ Fairness

(* ------------------- one item on any scorecard state ------------------ *)
\* The scorecards of the data model: integer runs, overs.balls with balls in
\* 0..5, wickets in 0..10, a one-bit strike flag.
Scorecards ==
  [runs : {Num(StartRuns)},
   over : {StartOvers * 10 + b : b \in 0..5},
   wicket : 0..10,
   onstrike : {0, 1}]

InitItem ==
  /\ queue = <<>>
  /\ processing = FALSE
  /\ scorecard \in Scorecards
  /\ calls = {}
  /\ addCall = [m \in Msgs |-> "notcalled"]
  /\ done = <<>>
  /\ lastOut = NoOutput
  /\ prevSc = scorecard

\* the parse-and-apply step of processNext on one classification result
ApplyItem(out) ==
  /\ scorecard' = ApplyOutput(scorecard, out)
  /\ prevSc' = scorecard
  /\ lastOut' = out
  /\ UNCHANGED <<queue, processing, calls, addCall, done>>

\* one item is applied and the run ends
NextItem == lastOut = NoOutput /\ \E out \in processWithGemini : ApplyItem(out)

SpecItem == InitItem /\ [][NextItem]_vars


(* ------------------ one event of the fields the update reads ---------- *)
\* The parsed events with integer runs_off_bat and extra_runs, one for each
\* combination of the fields the code reads. updateScorecard reads
\* runs_off_bat, extra_type, extra_runs and wicket of an event that is not
\* ignored.
DeliveryEvents ==
  [type : {"RUNS"}, runs_off_bat : {Num(n) : n \in 0..MaxRunsOffBat},
   extra_type : ExtraTypes, extra_runs : {Num(n) : n \in 0..MaxExtraRuns},
   free_hit : {FALSE}, wicket : BOOLEAN, ignore : {FALSE}]

\* Of an event with ignore = true the code reads ignore alone; these carry
\* runs, with and without a wicket, on a legal delivery and on each extra.
IgnoredEvents ==
  [type : {"RUNS"}, runs_off_bat : {Num(MaxRunsOffBat)},
   extra_type : ExtraTypes, extra_runs : {Num(MaxExtraRuns)},
   free_hit : {FALSE}, wicket : BOOLEAN, ignore : {TRUE}]

FieldEvents == DeliveryEvents \cup IgnoredEvents

\* one such event is parsed and applied and the run ends
NextField ==
  lastOut = NoOutput /\ \E e \in FieldEvents : ApplyItem(JsonOutput(e))

SpecField == InitItem /\ [][NextField]_vars

(* ---------------------- deliveries applied in a row ------------------- *)
\* A scorecard written {runs, overs.balls, wickets, onStrike}, overs.balls in
\* tenths.
Sc(r, o, w, st) == [runs |-> Num(r), over |-> o, wicket |-> w, onstrike |-> st]

\* a non-ignored delivery
Ball(rob, et, er, wk) ==
  JsonOutput([type |-> "RUNS", runs_off_bat |-> Num(rob), extra_type |-> et,
              extra_runs |-> Num(er), free_hit |-> FALSE, wicket |-> wk,
              ignore |-> FALSE])

\* the scorecards the example scenarios start from
ScenarioStarts == {Sc(0, 0, 0, 0), Sc(5, 5, 0, 0)}

\* legal deliveries and wides with runs_off_bat 0 or 1 and extra_runs 0 or 4,
\* with or without a wicket
ScenarioBalls ==
  {Ball(rob, et, er, wk) :
     rob \in {0, 1}, et \in {"null", "wide"}, er \in {0, 4}, wk \in BOOLEAN}

InitScenario ==
  /\ queue = <<>>
  /\ processing = FALSE
  /\ scorecard \in ScenarioStarts
  /\ calls = {}
  /\ addCall = [m \in Msgs |-> "notcalled"]
  /\ done = <<>>
  /\ lastOut = NoOutput
  /\ prevSc = scorecard

\* the parse-and-apply step of processNext on the next delivery; done counts
\* the deliveries applied
ApplyBall(out) ==
  /\ Len(done) < MaxScenarioSteps
  /\ scorecard' = ApplyOutput(scorecard, out)
  /\ prevSc' = scorecard
  /\ lastOut' = out
  /\ done' = Append(done, Len(done) + 1)
  /\ UNCHANGED <<queue, processing, calls, addCall>>

NextScenario == \E out \in ScenarioBalls : ApplyBall(out)

SpecScenario == InitScenario /\ [][NextScenario]_vars

(* ------------------- src/index.js: the handler without a queue -------- *)
IndexScorecard == [runs |-> Num(164), over |-> 194, wicket |-> 8, onstrike |-> 0]

inlineUpdateCountsNoBalls(sc, data) ==
  LET wicket1 == IF data.wicket = TRUE THEN (sc.wicket + 1) % 11 ELSE sc.wicket
      last_scorecard == sc.runs
      runs1 == JSAdd(sc.runs, JSAdd(data.runs_off_bat, data.extra_runs))
      rotationRuns == IF data.extra_type = "wide" \/ data.extra_type = "no_ball"
                        THEN JSSub(runs1, Num(1)) ELSE runs1
      diff == JSSub(rotationRuns, last_scorecard)
      strike1 == IF JSNotZero(JSRem(diff, 2)) /\ JSNotZero(diff)
                   THEN Xor1(sc.onstrike) ELSE sc.onstrike
      currentBalls == CurrentBalls(sc.over)
  IN  IF data.extra_type # "wide"
        THEN IF currentBalls = 5
               THEN [runs |-> runs1, over |-> (OverFloor(sc.over) + 1) * 10,
                     wicket |-> wicket1, onstrike |-> Xor1(strike1)]
               ELSE [runs |-> runs1,
                     over |-> OverFloor(sc.over) * 10 + (currentBalls + 1),
                     wicket |-> wicket1, onstrike |-> strike1]
        ELSE [runs |-> runs1, over |-> sc.over, wicket |-> wicket1,
              onstrike |-> strike1]

\* the scorecard update written inline in the handler
inlineUpdate(sc, data) ==
  LET \* wickets (data.wicket == true)
      wicket1 == IF data.wicket = TRUE THEN (sc.wicket + 1) % 11 ELSE sc.wicket
      \* runs and strike rotation
      last_scorecard == sc.runs
      runs1 == JSAdd(sc.runs, JSAdd(data.runs_off_bat, data.extra_runs))
      rotationRuns == IF data.extra_type = "wide" \/ data.extra_type = "no_ball"
                        THEN JSSub(runs1, Num(1)) ELSE runs1
      diff == JSSub(rotationRuns, last_scorecard)
      strike1 == IF JSNotZero(JSRem(diff, 2)) /\ JSNotZero(diff)
                   THEN Xor1(sc.onstrike) ELSE sc.onstrike
      \* overs, only for legal deliveries
      currentBalls == CurrentBalls(sc.over)
  IN  IF data.extra_type # "wide" /\ data.extra_type # "no_ball"
        THEN IF currentBalls = 5
               THEN [runs |-> runs1, over |-> (OverFloor(sc.over) + 1) * 10,
                     wicket |-> wicket1, onstrike |-> Xor1(strike1)]
               ELSE [runs |-> runs1,
                     over |-> OverFloor(sc.over) * 10 + (currentBalls + 1),
                     wicket |-> wicket1, onstrike |-> strike1]
        ELSE [runs |-> runs1, over |-> sc.over, wicket |-> wicket1,
              onstrike |-> strike1]

\* the handler from the return of its classification call: the scorecard after
IndexApplyOutput(sc, out) ==
  IF out.kind = "null" THEN sc               \* if (geminiOutput) is false
  ELSE IF out.kind = "garbage" THEN sc       \* JSON.parse throws, caught
  ELSE IF out.data.ignore THEN sc            \* return
  ELSE inlineUpdate(sc, out.data)

InitIndex ==
  /\ queue = <<>>
  /\ processing = FALSE
  /\ scorecard = IndexScorecard
  /\ calls = {}
  /\ addCall = [m \in Msgs |-> "notcalled"]
  /\ done = <<>>
  /\ lastOut = NoOutput
  /\ prevSc = IndexScorecard

\* The handler is invoked for a message of the target channel and suspends on
\* its own classification call; the messages arrive in order. addCall holds
\* the state of the handler invocation.
IndexHandler(m) ==
  /\ addCall[m] = "notcalled"
  /\ \A n \in Msgs : n < m => addCall[n] # "notcalled"
  /\ calls' = calls \cup {[msg |-> m, owner |-> m]}
  /\ addCall' = [addCall EXCEPT ![m] = "awaiting"]
  /\ UNCHANGED <<queue, processing, scorecard, done, lastOut, prevSc>>

\* the classification call of one suspended handler returns; the handler
\* parses the result, updates the scorecard and returns
IndexGeminiReturns(c, out) ==
  /\ c \in calls
  /\ scorecard' = IndexApplyOutput(scorecard, out)
  /\ prevSc' = scorecard
  /\ lastOut' = out
  /\ done' = Append(done, c.msg)
  /\ calls' = calls \ {c}
  /\ addCall' = [addCall EXCEPT ![c.owner] = "returned"]
  /\ UNCHANGED <<queue, processing>>

NextIndex ==
  \/ \E m \in Msgs : IndexHandler(m)
  \/ \E c \in calls : \E out \in QueueOutputs : IndexGeminiReturns(c, out)

SpecIndex == InitIndex /\ [][NextIndex]_vars

(* ------------------------ vocabulary of the claims -------------------- *)
\* the last completed item was a parsed, non-ignored event
Applied == lastOut.kind = "json" /\ ~lastOut.data.ignore
\* both numeric fields of the event are present integers
WellTyped(e) == IsNum(e.runs_off_bat) /\ IsNum(e.extra_runs)
CreditedRuns(e) == e.runs_off_bat.v + e.extra_runs.v
Odd(n) == n % 2 = 1
Toggled == scorecard.onstrike # prevSc.onstrike
Completed(m) == \E k \in DOMAIN done : done[k] = m
Idle == queue = <<>> /\ ~processing /\ calls = {}

(* ------------------------------- claims ------------------------------- *)

\* C1: FIFO. Messages are numbered in the order of their add calls; the k-th
\* item whose processing completes (applied, ignored or dropped) is message k,
\* the message in flight is the next one, and the pending messages follow it in
\* order, whenever the classification calls return.
FifoOrder ==
  /\ \A k \in DOMAIN done : done[k] = k
  /\ \A c \in calls : c.msg = Len(done) + 1
  /\ \A i \in DOMAIN queue : queue[i] = Len(done) + Cardinality(calls) + i

\* two later messages arrived while the first was in flight, and the first two
\* have been processed, the second one applied
FifoWitness ==
  /\ Len(done) = 2 /\ Applied
  /\ \E c \in calls : c.msg = 3 /\ c.owner = 1

\* C2: single flight. At most one classification call is outstanding and at
\* most one add call is suspended on a drain loop, in every reachable state.
SingleFlight ==
  /\ Cardinality(calls) <= 1
  /\ Cardinality({m \in Msgs : addCall[m] = "awaiting"}) <= 1

\* two add calls arrived while a classification call was outstanding
SingleFlightWitness ==
  /\ Cardinality(calls) = 1
  /\ Len(queue) >= 2
  /\ Cardinality({m \in Msgs : addCall[m] = "returned"}) >= 2

\* C3: failure isolation. A step that completes an item whose classification
\* failed (null result) or whose response did not parse leaves the scorecard as
\* it was, and the same step dequeues the head of the pending sequence if there
\* is one, and goes idle if there is none.
FailureIsolation ==
  [][\A c \in calls :
       (done' = Append(done, c.msg) /\ lastOut'.kind \in {"null", "garbage"})
         => /\ scorecard' = scorecard
            /\ queue # <<>> =>
                 /\ queue' = Tail(queue)
                 /\ calls' = {[msg |-> Head(queue), owner |-> c.owner]}
            /\ queue = <<>> => ~processing' /\ calls' = {}]_vars

\* an item failed to parse and the next message is in flight
FailureIsolationWitness ==
  /\ lastOut.kind = "garbage"
  /\ scorecard = prevSc
  /\ \E c \in calls : c.msg = Len(done) + 1

\* C4: malformed events are rejected before the engine. After an item whose
\* parsed response lacks runs_off_bat or extra_runs, the scorecard is what it
\* was before the item.
MalformedRejected ==
  (lastOut.kind = "json" /\ ~WellTyped(lastOut.data)) => scorecard = prevSc

\* C5: liveness of the drain. If every classification call returns, every
\* message passed to add is eventually processed to completion, and the queue
\* ends empty with processing = false once arrivals have stopped.
DrainLiveness ==
  /\ \A m \in Msgs : (addCall[m] # "notcalled") ~> Completed(m)
  /\ <>[]Idle

\* every message has arrived and been processed, and the queue is idle
DrainLivenessWitness ==
  /\ \A m \in Msgs : Completed(m)
  /\ Idle

\* C6: Idle/Draining. processing is false exactly when no message is in
\* flight, and an idle queue holds no pending message.
IdleDraining ==
  /\ processing <=> calls # {}
  /\ ~processing => queue = <<>>

\* the queue is idle again after a drain, while the add call that began the
\* drain has not yet returned
IdleDrainingWitness ==
  /\ ~processing /\ Len(done) >= 2
  /\ \E m \in Msgs : addCall[m] = "resuming"

\* C7: enqueue never blocks. No add call is ever suspended waiting for a
\* classification call to return.
AddNeverWaits == \A m \in Msgs : addCall[m] # "awaiting"

\* C8: ignore leaves the state unchanged. After an item whose parsed event has
\* ignore = true, every scorecard field equals its value before the item.
IgnoreUnchanged ==
  (lastOut.kind = "json" /\ lastOut.data.ignore) => scorecard = prevSc

\* an ignored event that carries a wicket and runs
IgnoreUnchangedWitness ==
  /\ lastOut.kind = "json" /\ lastOut.data.ignore
  /\ lastOut.data.wicket
  /\ WellTyped(lastOut.data) /\ CreditedRuns(lastOut.data) > 0
  /\ CurrentBalls(prevSc.over) = 5

\* C9 as stated: strike-parity law. After a non-ignored event, a legal delivery
\* changed onstrike iff runs_off_bat + extra_runs is odd, and a wide or no-ball
\* changed it iff runs_off_bat + extra_runs - 1 is odd.
StrikeParityLaw ==
  (Applied /\ WellTyped(lastOut.data)) =>
    IF IsWideOrNoBall(lastOut.data)
      THEN Toggled <=> Odd(CreditedRuns(lastOut.data) - 1)
      ELSE Toggled <=> Odd(CreditedRuns(lastOut.data))

\* C9 amended: the strike-parity law holds for a wide or no-ball and for a legal
\* delivery that does not complete the over; the sixth legal ball of an over
\* changes onstrike iff runs_off_bat + extra_runs is even.
StrikeParityAmended ==
  (Applied /\ WellTyped(lastOut.data)) =>
    IF IsWideOrNoBall(lastOut.data)
      THEN Toggled <=> Odd(CreditedRuns(lastOut.data) - 1)
      ELSE IF CurrentBalls(prevSc.over) = 5
        THEN Toggled <=> ~Odd(CreditedRuns(lastOut.data))
        ELSE Toggled <=> Odd(CreditedRuns(lastOut.data))

\* two runs off the sixth legal ball of the over: the strike changed
StrikeParityWitness ==
  /\ Applied /\ WellTyped(lastOut.data)
  /\ ~IsWideOrNoBall(lastOut.data)
  /\ CurrentBalls(prevSc.over) = 5
  /\ CreditedRuns(lastOut.data) = 2
  /\ Toggled

\* C10 as stated: over-completion law. A non-ignored legal delivery with 5
\* balls in the over adds one to the completed overs, resets the balls to 0 and
\* changes onstrike, whatever the runs.
OverCompletionLaw ==
  (Applied /\ WellTyped(lastOut.data) /\ ~IsWideOrNoBall(lastOut.data)
     /\ CurrentBalls(prevSc.over) = 5) =>
    /\ OverFloor(scorecard.over) = OverFloor(prevSc.over) + 1
    /\ CurrentBalls(scorecard.over) = 0
    /\ Toggled

\* C10 amended: such a delivery adds one to the completed overs, resets the
\* balls to 0 and toggles onstrike once more after the run-parity rotation, so
\* onstrike changes iff runs_off_bat + extra_runs is even.
OverCompletionAmended ==
  (Applied /\ WellTyped(lastOut.data) /\ ~IsWideOrNoBall(lastOut.data)
     /\ CurrentBalls(prevSc.over) = 5) =>
    /\ OverFloor(scorecard.over) = OverFloor(prevSc.over) + 1
    /\ CurrentBalls(scorecard.over) = 0
    /\ Toggled <=> ~Odd(CreditedRuns(lastOut.data))

\* a single off the sixth legal ball: the over completes and the same batter
\* keeps the strike
OverCompletionWitness ==
  /\ Applied /\ WellTyped(lastOut.data) /\ ~IsWideOrNoBall(lastOut.data)
  /\ CurrentBalls(prevSc.over) = 5
  /\ CreditedRuns(lastOut.data) = 1
  /\ scorecard.over = prevSc.over + 5
  /\ ~Toggled


\* C11: extras accounting. After a non-ignored event with integer fields, runs
\* is runs before plus exactly runs_off_bat + extra_runs, for a wide or no-ball
\* as for a legal delivery.
ExtrasAccounting ==
  (Applied /\ WellTyped(lastOut.data)) =>
    scorecard.runs = Num(prevSc.runs.v + CreditedRuns(lastOut.data))

\* a no-ball with two runs off the bat and the penalty run in extra_runs
ExtrasAccountingWitness ==
  /\ Applied
  /\ lastOut.data.extra_type = "no_ball"
  /\ lastOut.data.runs_off_bat = Num(2) /\ lastOut.data.extra_runs = Num(1)
  /\ scorecard.runs = Num(prevSc.runs.v + 3)

\* C12: legal-delivery counting. A non-ignored wide or no-ball leaves
\* scorecard.over as it was; a non-ignored legal delivery with fewer than 5
\* balls in the over adds one ball and keeps the completed overs; and the balls
\* of the current over stay within 0..5.
LegalDeliveryCounting ==
  /\ CurrentBalls(scorecard.over) \in 0..5
  /\ Applied =>
       IF IsWideOrNoBall(lastOut.data)
         THEN scorecard.over = prevSc.over
         ELSE CurrentBalls(prevSc.over) < 5 =>
                /\ CurrentBalls(scorecard.over) = CurrentBalls(prevSc.over) + 1
                /\ OverFloor(scorecard.over) = OverFloor(prevSc.over)

\* a wide bowled with 5 balls in the over: the over is still open
LegalDeliveryCountingWitness ==
  /\ Applied
  /\ lastOut.data.extra_type = "wide"
  /\ CurrentBalls(prevSc.over) = 5
  /\ scorecard.over = prevSc.over

\* C13: wicket counter. A non-ignored event with wicket = true sets wicket to
\* (wicket + 1) mod 11, one with wicket = false leaves it, and wicket stays
\* within 0..10.
WicketCounter ==
  /\ scorecard.wicket \in 0..10
  /\ Applied =>
       scorecard.wicket = (IF lastOut.data.wicket
                             THEN (prevSc.wicket + 1) % 11
                             ELSE prevSc.wicket)

\* the eleventh dismissal takes the counter from 10 back to 0
WicketCounterWitness ==
  /\ Applied /\ lastOut.data.wicket
  /\ prevSc.wicket = 10
  /\ scorecard.wicket = 0


\* C14: only the drain loop writes the scorecard. A step that changes any
\* scorecard field is the step that completes the item in flight, and that
\* item's result parsed to a non-ignored event; add calls, returns of add and
\* failed or ignored items change nothing.
OnlyDrainWrites ==
  [][scorecard' # scorecard =>
       /\ \E c \in calls : done' = Append(done, c.msg)
       /\ lastOut'.kind = "json" /\ ~lastOut'.data.ignore]_vars

\* the drain loop applied the second message while the third was pending
OnlyDrainWritesWitness ==
  /\ Applied /\ scorecard # prevSc
  /\ Len(done) = 2
  /\ \E m \in Msgs : addCall[m] = "awaiting"

\* the number of places of a sequence that hold message m
Occurrences(seq, m) == Cardinality({k \in DOMAIN seq : seq[k] = m})

\* C15: exactly once, no retry. A message passed to add is in exactly one
\* place: pending in the queue, in flight in one classification call, or
\* completed once; a message not yet passed to add is in none. So no message
\* is dequeued, classified or applied a second time, failed or not.
ExactlyOnce ==
  \A m \in Msgs :
    Occurrences(queue, m) + Cardinality({c \in calls : c.msg = m})
        + Occurrences(done, m)
      = (IF addCall[m] = "notcalled" THEN 0 ELSE 1)

\* every message was processed, the last one failed, and nothing is pending
ExactlyOnceWitness ==
  /\ Len(done) = MaxMsgs
  /\ lastOut.kind = "null"
  /\ queue = <<>> /\ calls = {}

\* C20: add while draining only appends. A step in which add is called while
\* processing is true leaves the pending sequence with the new message at its
\* tail, and the call in flight, the flag and the scorecard as they were.
AddOnlyAppends ==
  [][\A m \in Msgs :
       (processing /\ addCall[m] = "notcalled" /\ addCall'[m] # "notcalled")
         => /\ queue' = Append(queue, m)
            /\ calls' = calls
            /\ processing' = processing
            /\ scorecard' = scorecard]_vars

\* the second and third messages were appended behind the first one's call
AddOnlyAppendsWitness ==
  /\ queue = <<2, 3>>
  /\ calls = {[msg |-> 1, owner |-> 1]}
  /\ done = <<>>


\* C16: free_hit and type do not influence the update. The scorecard a
\* non-ignored event produced is the one the same event produces with any
\* other type label and any other free_hit value, so two events that agree on
\* runs_off_bat, extra_type, extra_runs and wicket produce the same scorecard.
LabelsIgnored ==
  Applied =>
    \A t \in Types : \A f \in BOOLEAN :
      ApplyOutput(prevSc, JsonOutput([lastOut.data EXCEPT !.type = t,
                                                          !.free_hit = f]))
        = scorecard

\* a wicket on a free hit, labelled FREE_HIT, was counted
LabelsIgnoredWitness ==
  /\ Applied
  /\ lastOut.data.free_hit /\ lastOut.data.type = "FREE_HIT"
  /\ lastOut.data.wicket
  /\ scorecard.wicket = prevSc.wicket + 1

\* C18 as stated: the update is idempotent. Applying the event of the last
\* item once more to the scorecard it produced gives that scorecard again.
Idempotent ==
  lastOut.kind = "json" => ApplyOutput(scorecard, lastOut) = scorecard

\* C18 amended: applying an event a second time gives the same scorecard as
\* applying it once exactly when the event has ignore = true; a non-ignored
\* event changes the scorecard again on every application.
IdempotentIffIgnored ==
  lastOut.kind = "json" =>
    (ApplyOutput(scorecard, lastOut) = scorecard <=> lastOut.data.ignore)

\* a legal single applied once; applied again it would add a run and a ball
IdempotentWitness ==
  /\ Applied /\ WellTyped(lastOut.data)
  /\ ~IsWideOrNoBall(lastOut.data) /\ CreditedRuns(lastOut.data) = 1
  /\ ApplyOutput(scorecard, lastOut).runs = Num(prevSc.runs.v + 2)
  /\ ApplyOutput(scorecard, lastOut).over # scorecard.over


\* C17: worked scenarios. A legal single on {0, 0.0, 0, 0} gives {1, 0.1, 0, 1};
\* a legal dot ball on that gives {1, 0.2, 0, 1}; a wide with runs_off_bat 0 and
\* extra_runs 4 on that gives {5, 0.2, 0, 0}; a legal dot ball on {5, 0.5, 0, 0}
\* gives {5, 1.0, 0, 1}; a legal dot ball with a wicket on that gives
\* {5, 1.1, 1, 1}.
WorkedScenarios ==
  /\ (prevSc = Sc(0, 0, 0, 0) /\ lastOut = Ball(1, "null", 0, FALSE))
       => scorecard = Sc(1, 1, 0, 1)
  /\ (prevSc = Sc(1, 1, 0, 1) /\ lastOut = Ball(0, "null", 0, FALSE))
       => scorecard = Sc(1, 2, 0, 1)
  /\ (prevSc = Sc(1, 2, 0, 1) /\ lastOut = Ball(0, "wide", 4, FALSE))
       => scorecard = Sc(5, 2, 0, 0)
  /\ (prevSc = Sc(5, 5, 0, 0) /\ lastOut = Ball(0, "null", 0, FALSE))
       => scorecard = Sc(5, 10, 0, 1)
  /\ (prevSc = Sc(5, 10, 0, 1) /\ lastOut = Ball(0, "null", 0, TRUE))
       => scorecard = Sc(5, 11, 1, 1)

\* the third delivery of the first scenario chain: the wide of four on
\* {1, 0.2, 0, 1} has been applied
WorkedScenariosWitness ==
  /\ Len(done) = 3
  /\ prevSc = Sc(1, 2, 0, 1)
  /\ lastOut = Ball(0, "wide", 4, FALSE)
  /\ scorecard = Sc(5, 2, 0, 0)


\* C19: the handler of src/index.js applies updates in arrival order. When the
\* first two completed items both updated the scorecard, the one that arrived
\* first was applied first.
IndexArrivalOrder ==
  (Len(done) = 2 /\ Applied /\ scorecard # prevSc /\ prevSc # IndexScorecard)
    => done[1] < done[2]


\* C21: the update commutes. For every scorecard and any two events with
\* integer fields, ignored or not, legal or wide/no-ball, with or without a
\* wicket, applying the first and then the second gives the same runs, over,
\* wicket and onstrike as applying the second and then the first.
UpdateCommutes ==
  lastOut.kind = "json" =>
    \A e2 \in FieldEvents :
      ApplyOutput(scorecard, JsonOutput(e2))
        = ApplyOutput(ApplyOutput(prevSc, JsonOutput(e2)), lastOut)

\* a wide with 5 balls in the over was applied, and a legal single with a
\* wicket applied before it or after it completes the over: the scorecards in
\* between differ and the final ones agree
UpdateCommutesWitness ==
  /\ Applied /\ lastOut.data.extra_type = "wide"
  /\ CurrentBalls(prevSc.over) = 5
  /\ Toggled
  /\ \E e2 \in FieldEvents :
       /\ ~e2.ignore /\ ~IsWideOrNoBall(e2) /\ e2.wicket
       /\ CreditedRuns(e2) = 1
       /\ ApplyOutput(prevSc, JsonOutput(e2)).over = prevSc.over + 5
       /\ ApplyOutput(prevSc, JsonOutput(e2)).onstrike = prevSc.onstrike
       /\ ApplyOutput(scorecard, JsonOutput(e2)).over = prevSc.over + 5
       /\ ApplyOutput(scorecard, JsonOutput(e2)).onstrike = scorecard.onstrike


\* C22: the two update implementations agree. For every scorecard and every
\* parsed event with boolean ignore and wicket, an extra_type of wide, no_ball,
\* leg_bye, bye or null and integer runs_off_bat and extra_runs, the ignore
\* check and inline update of the src/index.js handler give the scorecard that
\* the ignore check and updateScorecard of the queue's processNext gave.
UpdatesAgree ==
  (lastOut.kind = "json" /\ WellTyped(lastOut.data)) =>
    IndexApplyOutput(prevSc, lastOut) = scorecard

\* a no-ball with a wicket and an even number of runs at 5 balls and 10
\* wickets: both implementations wrap the wickets, flip the strike and leave
\* the over open
UpdatesAgreeWitness ==
  /\ Applied /\ WellTyped(lastOut.data)
  /\ lastOut.data.extra_type = "no_ball" /\ lastOut.data.wicket
  /\ ~Odd(CreditedRuns(lastOut.data))
  /\ prevSc.wicket = 10 /\ CurrentBalls(prevSc.over) = 5
  /\ IndexApplyOutput(prevSc, lastOut) = scorecard
  /\ scorecard.wicket = 0 /\ Toggled /\ scorecard.over = prevSc.over

====
